---- MODULE Spec2Model ----
(***************************************************************************)
(* Session / transport layer of the Railway MCP server (src/src/index.ts). *)
(*                                                                         *)
(* The server keeps one map, transports, from session id to a transport    *)
(* object.  Five HTTP handlers read and write it: POST /mcp, DELETE /mcp,  *)
(* GET /sse, POST /messages and GET /health.  The async handlers run on a  *)
(* single-threaded event loop: the code between two awaits is one atomic   *)
(* step, and other handlers may run while a handler is suspended at an     *)
(* await.  Every action below is one such step.                            *)
(*                                                                         *)
(* The SDK transports and the protocol engine are external: a call into    *)
(* them either resolves or rejects, chosen nondeterministically.           *)
(*                                                                         *)
(* Spec is the HTTP surface.  SpecRace is the same with room for one more  *)
(* suspended handler.  SpecBulk is one run of the set_variables_bulk tool  *)
(* handler against the backend.  SpecMsg is one event-stream session whose *)
(* messages call set_variables_bulk, with the runs of their handlers.      *)
(***************************************************************************)
EXTENDS Integers, Sequences, FiniteSets, Bags

VARIABLES
    transports,   \* the session map: own keys -> transport object
    nextId,       \* number of ids drawn from randomUUID so far, plus one
    onclose,      \* ids of the SSE transports whose onclose callback is set
    open,         \* ids of the SSE transports whose connection is open
    reqs,         \* the handlers suspended at an await: a bag of records
    resp,         \* what the step just taken told a client, if anything
    assigned,     \* history: the sessions created, in order of creation
    returned,     \* history: the session ids sent to a client
    destroyed,    \* history: the ids whose entry a handler or callback deleted
    deleted204,   \* history: the sessions for which DELETE /mcp answered 204
    closed,       \* history: the SSE ids whose connection has closed
    connected,    \* the engine instances and the transport each is connected to
    limits,       \* how many sessions and suspended handlers a run may hold
    bulk,         \* the run of the set_variables_bulk handler
    backend,      \* the Railway backend: the calls it received, the variables it holds
    msgs,         \* the messages handed to an SSE transport, in order of arrival
    stream        \* the messages whose result went out on the event stream, in order

mapVars == <<transports, nextId, onclose, open, reqs,
             assigned, returned, destroyed, deleted204, closed,
             connected, limits>>

httpVars == <<mapVars, resp>>

toolVars == <<bulk, backend, msgs, stream>>

vars == <<httpVars, toolVars>>

----------------------------------------------------------------------------
(* Bounds *)

\* number of sessions created in one run
MaxSessions == 2

\* number of handlers suspended at an await at the same time
MaxInflight == 1

\* number of keys in the variables object of one set_variables_bulk call
MaxVars == 3

\* number of messages posted to the event-stream session
MaxMsgs == 2

----------------------------------------------------------------------------
(* Values *)

\* the values randomUUID() returns, in the order it returns them
UUIDs == <<"u1", "u2", "u3", "u4", "u5", "u6">>

\* a header or query parameter that is absent reads as undefined (falsy)
Missing == ""

\* a well-formed id that no session ever had
Bogus == "bogus"

\* names every object literal inherits from Object.prototype
ProtoKeys == {"constructor"}

InvalidSessionCode == -32000

InternalErrorCode == -32603

\* what a property read yields when the key is neither own nor inherited
Undefined == [kind |-> "undefined", tid |-> 0]

\* what a property read yields for a key inherited from Object.prototype
Inherited == [kind |-> "inherited", tid |-> 0]

StreamableHTTPServerTransport(n) == [kind |-> "streamable", tid |-> n]

SSEServerTransport(n) == [kind |-> "sse", tid |-> n]

\* the request bodies that are not the initialize message: one that calls a
\* tool stands for them all, no handler looks further into the body
Bodies == {"tools/call"}

\* transports[key]: own property, else the prototype chain, else undefined
GetProp(obj, key) ==
    IF key \in DOMAIN obj THEN obj[key]
    ELSE IF key \in ProtoKeys THEN Inherited
    ELSE Undefined

\* transports[key] = value
SetProp(obj, key, value) ==
    [k \in DOMAIN obj \cup {key} |-> IF k = key THEN value ELSE obj[k]]

\* a delete that removes nothing
DeletePropKeep(obj, key) == obj

\* delete transports[key]: removes an own property, nothing else
DeleteProp(obj, key) == [k \in DOMAIN obj \ {key} |-> obj[k]]

\* JavaScript truthiness of a value read from the map
Truthy(v) == v.kind # "undefined"

\* whether the object has the method: the SDK classes' public methods
HasMethod(v, m) ==
    \/ v.kind = "streamable" /\ m \in {"handleRequest", "close"}
    \/ v.kind = "sse" /\ m \in {"handlePostMessage", "close"}

\* transport instanceof SSEServerTransport
InstanceofSSE(v) == v.kind = "sse"

\* a count of the sessions ever created
HealthSessionsCreated(obj) == Len(assigned)

\* Object.keys(transports).length
HealthSessions(obj) == Cardinality(DOMAIN obj)

randomUUID(n) == UUIDs[n]

----------------------------------------------------------------------------
(* The set_variables_bulk tool *)

\* the names and values a caller puts in the variables object; "1" is a name
\* JavaScript treats as an array index
Names == {"1", "A", "B", "C"}

Values == {"x", "y"}

IsIndexKey(name) == name \in {"1"}

\* the objects a caller can pass as variables: the own properties in property
\* order, which puts index keys before the other names
Objects ==
    {o \in UNION {[1 .. n -> [name : Names, value : Values]] : n \in 0 .. MaxVars} :
        /\ \A i, j \in 1 .. Len(o) : i # j => o[i].name # o[j].name
        /\ \A i, j \in 1 .. Len(o) :
              (i < j /\ IsIndexKey(o[j].name)) => IsIndexKey(o[i].name)}

\* Object.entries(variables): the [name, value] pairs in property order
ObjectEntries(o) == [i \in 1 .. Len(o) |-> <<o[i].name, o[i].value>>]

NoReply == [kind |-> "none", results |-> <<>>]

NoRun == [pc |-> "idle", entries |-> <<>>, i |-> 0, call |-> 0,
          results |-> <<>>, reply |-> NoReply]

NoBackend == [calls |-> <<>>, store |-> [n \in {} |-> ""]]

\* the handler is entered: const results = [] and the loop is set up
Invoke(variables) ==
    [NoRun EXCEPT !.pc = "loop", !.entries = ObjectEntries(variables), !.i = 1]

\* the loop has an entry left / has none left
AtCall(b) == b.pc = "loop" /\ b.i <= Len(b.entries)

AtReturn(b) == b.pc = "loop" /\ b.i > Len(b.entries)

\* client.request(queries.setVariable, {..., name, value}) is issued
Request(be, entry) ==
    [be EXCEPT !.calls = Append(@, [query |-> "variableUpsert", name |-> entry[1],
                                    value |-> entry[2], outcome |-> "pending"])]

\* the handler is suspended at the await of the call it has just issued
Awaiting(b, be) == [b EXCEPT !.pc = "await", !.call = Len(be.calls) + 1]

\* the backend answers call k: it applies the variable, or it fails
Settle(be, k, ok) ==
    [be EXCEPT !.calls[k].outcome = IF ok THEN "resolved" ELSE "rejected",
               !.store = IF ok
                         THEN [n \in DOMAIN @ \cup {be.calls[k].name} |->
                                  IF n = be.calls[k].name THEN be.calls[k].value
                                  ELSE @[n]]
                         ELSE @]

\* the await resolves: results.push({ name, success: true }) and the loop goes on
Resolved(b) ==
    [b EXCEPT !.results = Append(@, [name |-> b.entries[b.i][1], success |-> TRUE]),
              !.i = @ + 1, !.pc = "loop"]

\* a loop that notes the failure and goes on with the next entry
RejectedContinue(b) ==
    [b EXCEPT !.results = Append(@, [name |-> b.entries[b.i][1], success |-> FALSE]),
              !.i = @ + 1, !.pc = "loop"]

\* the await rejects: nothing catches it, the handler ends with the exception
\* and its results array is unreachable; the caller gets an error
Rejected(b) == [b EXCEPT !.pc = "done", !.reply = [kind |-> "error", results |-> <<>>]]

\* return { content: [{ type: "text", text: JSON.stringify(results) }] }
Returned(b) == [b EXCEPT !.pc = "done", !.reply = [kind |-> "result", results |-> b.results]]

\* the handler runs on to its next await or to its end: with an entry left it
\* issues the call for it and suspends, with none left it returns
Continue(b, be) ==
    IF AtCall(b)
    THEN [run |-> Awaiting(b, be), backend |-> Request(be, b.entries[b.i])]
    ELSE IF AtReturn(b)
    THEN [run |-> Returned(b), backend |-> be]
    ELSE [run |-> b, backend |-> be]

----------------------------------------------------------------------------
(* Handlers in flight *)

\* the ids of the sessions created so far
Created == {assigned[i].id : i \in 1 .. Len(assigned)}

\* facts about the request's session id when the handler started
NoPre == [deleted |-> FALSE, closed |-> FALSE]

PreOf(sid) == [deleted |-> sid \in deleted204, closed |-> sid \in closed]

IdleReq == [op |-> "idle", pc |-> "idle", sid |-> Missing, body |-> "",
            tr |-> Undefined, newId |-> Missing, pre |-> NoPre,
            out |-> "ok"]

NoResp == [op |-> "none", sid |-> Missing, body |-> "", status |-> 0,
           code |-> 0, escaped |-> FALSE, fwd |-> FALSE, backend |-> FALSE,
           tr |-> Undefined, newId |-> Missing, pre |-> NoPre,
           sessions |-> 0, threw |-> FALSE]

\* room for one more suspended handler
HasFree == BagCardinality(reqs) < limits.inflight

\* the session ids a client can put in a request: those it was sent, an
\* absent one, one no session has, and a name of Object.prototype
ClientIds == returned \cup {Missing, Bogus} \cup ProtoKeys

Reply(r, status, code) ==
    [NoResp EXCEPT !.op = r.op, !.sid = r.sid, !.body = r.body,
                   !.status = status, !.code = code, !.tr = r.tr,
                   !.newId = r.newId, !.pre = r.pre]

\* the state after the module has loaded: no session, no request
Empty ==
    /\ transports = [k \in {} |-> Undefined]
    /\ nextId = 1
    /\ onclose = {}
    /\ open = {}
    /\ reqs = EmptyBag
    /\ resp = NoResp
    /\ assigned = <<>>
    /\ returned = {}
    /\ destroyed = {}
    /\ deleted204 = {}
    /\ closed = {}
    /\ connected = {}
    /\ bulk = NoRun
    /\ backend = NoBackend
    /\ msgs = <<>>
    /\ stream = <<>>

Init ==
    /\ Empty
    /\ limits = [sessions |-> MaxSessions, inflight |-> MaxInflight]

\* the same server with room for one more suspended handler
InitRace ==
    /\ Empty
    /\ limits = [sessions |-> MaxSessions, inflight |-> MaxInflight + 1]

----------------------------------------------------------------------------
(* Pieces of the handlers *)

\* one engine instance serves every session
createMcpServerShared(n) == 1

\* createMcpServer(): the n-th call builds the n-th engine instance
createMcpServer(n) == n

\* mcpServer.connect(transport): the engine holds the transport from now on
Connect(conn, engine, t) == conn \cup {[engine |-> engine, tr |-> t]}

\* the id the client sent is taken over when there is one
NewSessionIdFromHeader(n, hdr) == IF hdr # Missing THEN hdr ELSE UUIDs[n]

\* const newSessionId = randomUUID(): the header of the request plays no part
NewSessionId(n, hdr) == randomUUID(n)

\* sessionId && transports[sessionId], the test of POST /mcp and DELETE /mcp
McpLookup(obj, sid) == sid # Missing /\ Truthy(GetProp(obj, sid))

\* the test without the instanceof
MessagesNotFoundNoKind(v) == ~Truthy(v)

\* !transport || !(transport instanceof SSEServerTransport)
MessagesNotFound(v) == ~Truthy(v) \/ ~InstanceofSSE(v)

\* no callback is set
RegisterOncloseNone(cbs, id) == cbs

\* transport.onclose = () => { delete transports[sessionId] }
RegisterOnclose(cbs, id) == cbs \cup {id}

\* the transport calls its onclose callback, if one is set
RunOnclose(obj, cbs, id) == IF id \in cbs THEN DeleteProp(obj, id) ELSE obj

\* the ids whose own entry a delete of key id removes
Removed(obj, id) == {id} \cap DOMAIN obj

\* handler r suspends
Start(r) == reqs' = reqs (+) SetToBag({r})

\* handler r resumes and runs to its end
Finish(r) == reqs' = reqs (-) SetToBag({r})

\* handler r resumes and suspends again as q
Resume(r, q) == reqs' = (reqs (-) SetToBag({r})) (+) SetToBag({q})

----------------------------------------------------------------------------
(* POST /mcp *)

\* initialize: a new transport is stored under a new id, and the handler
\* suspends at await mcpServer.connect(transport).  This branch never reads
\* the session header again, so the suspended handler does not keep it
PostMcpInitialize(sid) ==
    /\ nextId <= limits.sessions
    /\ HasFree
    /\ LET id == NewSessionId(nextId, sid)
           t  == StreamableHTTPServerTransport(nextId)
       IN /\ transports' = SetProp(transports, id, t)
          /\ assigned' = Append(assigned, [id |-> id, tr |-> t])
          /\ connected' = Connect(connected, createMcpServer(nextId), t)
          /\ Start([IdleReq EXCEPT !.op = "postMcp", !.pc = "connect",
                                 !.body = "initialize", !.tr = t, !.newId = id])
    /\ nextId' = nextId + 1
    /\ resp' = NoResp
    /\ UNCHANGED <<onclose, open, returned, destroyed, deleted204, closed>>
    /\ UNCHANGED limits

\* connect resolves: the initialize payload goes to transport.handleRequest;
\* connect rejects: the catch block answers 500
PostMcpConnected(r) ==
    /\ r.op = "postMcp" /\ r.pc = "connect"
    /\ \E ok \in BOOLEAN :
          IF ok
          THEN /\ Resume(r, [r EXCEPT !.pc = "handle"])
               /\ resp' = NoResp
          ELSE /\ Finish(r)
               /\ resp' = [Reply(r, 500, InternalErrorCode)
                              EXCEPT !.threw = TRUE]
    /\ UNCHANGED <<transports, nextId, onclose, open, assigned, returned,
                   destroyed, deleted204, closed>>
    /\ UNCHANGED <<connected, limits>>

\* not initialize, and the header names something truthy in the map: the
\* value is used as a StreamableHTTPServerTransport without a check
PostMcpForward(sid, body) ==
    /\ McpLookup(transports, sid)
    /\ LET t == GetProp(transports, sid)
           r == [IdleReq EXCEPT !.op = "postMcp", !.pc = "handle", !.sid = sid,
                                !.body = body, !.tr = t, !.pre = PreOf(sid)]
       IN IF HasMethod(t, "handleRequest")
          THEN /\ HasFree
               /\ Start(r)
               /\ resp' = NoResp
          ELSE \* TypeError: transport.handleRequest is not a function
               /\ resp' = [Reply(r, 500, InternalErrorCode) EXCEPT !.threw = TRUE]
               /\ UNCHANGED reqs
    /\ UNCHANGED <<transports, nextId, onclose, open, assigned, returned,
                   destroyed, deleted204, closed>>
    /\ UNCHANGED <<connected, limits>>

\* not initialize, and the header is absent or names nothing
PostMcpReject(sid, body) ==
    /\ ~McpLookup(transports, sid)
    /\ resp' = Reply([IdleReq EXCEPT !.op = "postMcp", !.sid = sid, !.body = body,
                                     !.tr = GetProp(transports, sid),
                                     !.pre = PreOf(sid)],
                     400, InvalidSessionCode)
    /\ UNCHANGED <<transports, nextId, onclose, open, reqs, assigned, returned,
                   destroyed, deleted204, closed>>
    /\ UNCHANGED <<connected, limits>>

\* transport.handleRequest settles.  The transport writes the reply itself
\* (and on initialize the Mcp-Session-Id header); when it rejects, the catch
\* block answers 500 unless the response has started
PostMcpHandled(r) ==
    /\ r.op = "postMcp" /\ r.pc = "handle"
    /\ LET call == r.body = "tools/call"
       IN \E outcome \in {"ok", "throw", "throwSent"} :
             \/ /\ outcome = "ok"
                /\ resp' = [Reply(r, 200, 0) EXCEPT !.fwd = TRUE, !.backend = call]
                /\ returned' = IF r.body = "initialize"
                               THEN returned \cup {r.newId} ELSE returned
             \/ /\ outcome = "throw"
                /\ resp' = [Reply(r, 500, InternalErrorCode)
                              EXCEPT !.fwd = TRUE, !.backend = call, !.threw = TRUE]
                /\ UNCHANGED returned
             \/ /\ outcome = "throwSent"
                /\ resp' = [Reply(r, 200, 0)
                              EXCEPT !.fwd = TRUE, !.backend = call, !.threw = TRUE]
                /\ UNCHANGED returned
    /\ Finish(r)
    /\ UNCHANGED <<transports, nextId, onclose, open, assigned,
                   destroyed, deleted204, closed>>
    /\ UNCHANGED <<connected, limits>>

----------------------------------------------------------------------------
(* DELETE /mcp *)

\* the header names something truthy in the map: transport.close?.() is
\* called and the handler suspends at the await.  An SSE transport that
\* closes ends its connection and calls its onclose callback, unless close
\* fails before it gets there
DeleteMcpBegin(sid) ==
    /\ McpLookup(transports, sid)
    /\ HasFree
    /\ LET t == GetProp(transports, sid)
           r == [IdleReq EXCEPT !.op = "deleteMcp", !.pc = "close", !.sid = sid,
                                !.tr = t, !.pre = PreOf(sid)]
       IN IF HasMethod(t, "close") /\ InstanceofSSE(t)
          THEN \E ran \in BOOLEAN :
                  /\ Start([r EXCEPT !.out = IF ran THEN "ok" ELSE "throw"])
                  /\ IF ran
                     THEN /\ transports' = RunOnclose(transports, onclose, sid)
                          /\ destroyed' = destroyed \cup
                                 (IF sid \in onclose THEN Removed(transports, sid)
                                  ELSE {})
                          /\ open' = open \ {sid}
                          /\ closed' = closed \cup {sid}
                     ELSE UNCHANGED <<transports, destroyed, open, closed>>
          ELSE \* a streamable transport, or a value with no close method, for
               \* which close?.() is undefined
               /\ Start(r)
               /\ UNCHANGED <<transports, destroyed, open, closed>>
    /\ resp' = NoResp
    /\ UNCHANGED <<nextId, onclose, assigned, returned, deleted204>>
    /\ UNCHANGED <<connected, limits>>

\* the header is absent or names nothing
DeleteMcpNotFound(sid) ==
    /\ ~McpLookup(transports, sid)
    /\ resp' = Reply([IdleReq EXCEPT !.op = "deleteMcp", !.sid = sid,
                                     !.tr = GetProp(transports, sid),
                                     !.pre = PreOf(sid)], 404, 0)
    /\ UNCHANGED <<transports, nextId, onclose, open, reqs, assigned, returned,
                   destroyed, deleted204, closed>>
    /\ UNCHANGED <<connected, limits>>

\* close settles.  Resolved: the entry is deleted and the answer is 204.
\* Rejected: nothing catches it, so the delete and the answer are skipped
DeleteMcpClosed(r) ==
    /\ r.op = "deleteMcp" /\ r.pc = "close"
    /\ \E ok \in BOOLEAN :
          \* a close that failed before its onclose has failed; close?.() on a
          \* value with no close method cannot fail
          /\ ok => r.out = "ok"
          /\ ~ok => HasMethod(r.tr, "close")
          /\ IF ok
             THEN /\ transports' = DeleteProp(transports, r.sid)
                  /\ destroyed' = destroyed \cup Removed(transports, r.sid)
                  /\ deleted204' = deleted204 \cup ({r.sid} \cap Created)
                  /\ resp' = Reply(r, 204, 0)
             ELSE /\ resp' = [Reply(r, 0, 0) EXCEPT !.escaped = TRUE, !.threw = TRUE]
                  /\ UNCHANGED <<transports, destroyed, deleted204>>
    /\ Finish(r)
    /\ UNCHANGED <<nextId, onclose, open, assigned, returned, closed>>
    /\ UNCHANGED <<connected, limits>>

----------------------------------------------------------------------------
(* GET /sse *)

\* a new SSE transport (the SDK draws its sessionId from randomUUID) is
\* stored, its onclose callback is set, and mcpServer.connect(transport)
\* starts it.  Started: the response head and the endpoint event carrying
\* the id are written.  Otherwise start throws, before or after the head
GetSse ==
    /\ nextId <= limits.sessions
    /\ HasFree
    /\ LET id == randomUUID(nextId)
           t  == SSEServerTransport(nextId)
       IN /\ transports' = SetProp(transports, id, t)
          /\ onclose' = RegisterOnclose(onclose, id)
          /\ assigned' = Append(assigned, [id |-> id, tr |-> t])
          /\ connected' = Connect(connected, createMcpServer(nextId), t)
          /\ \E res \in {"ok", "throw", "throwSent"} :
                LET r == [IdleReq EXCEPT !.op = "getSse", !.pc = "connect",
                                         !.tr = t, !.newId = id, !.out = res]
                IN /\ Start(r)
                   /\ open' = IF res = "ok" THEN open \cup {id} ELSE open
                   /\ returned' = IF res = "ok" THEN returned \cup {id}
                                  ELSE returned
                   /\ resp' = IF res = "ok" THEN Reply(r, 200, 0)
                              ELSE IF res = "throwSent"
                              THEN [Reply(r, 200, 0) EXCEPT !.threw = TRUE]
                              ELSE NoResp
    /\ nextId' = nextId + 1
    /\ UNCHANGED <<destroyed, deleted204, closed>>
    /\ UNCHANGED limits

\* connect settles.  Rejected: the entry is deleted, and 500 is answered
\* unless the response has started
GetSseConnected(r) ==
    /\ r.op = "getSse" /\ r.pc = "connect"
    /\ IF r.out = "ok"
       THEN /\ resp' = NoResp
            /\ UNCHANGED <<transports, destroyed>>
       ELSE /\ transports' = DeleteProp(transports, r.newId)
            /\ destroyed' = destroyed \cup Removed(transports, r.newId)
            /\ resp' = IF r.out = "throw"
                       THEN [Reply(r, 500, 0) EXCEPT !.threw = TRUE]
                       ELSE NoResp
    /\ Finish(r)
    /\ UNCHANGED <<nextId, onclose, open, assigned, returned, deleted204, closed>>
    /\ UNCHANGED <<connected, limits>>

\* the event-stream connection of session id closes (the client goes away,
\* or the response was ended): the transport calls its onclose callback
SseClose(id) ==
    /\ id \in open
    /\ open' = open \ {id}
    /\ closed' = closed \cup {id}
    /\ transports' = RunOnclose(transports, onclose, id)
    /\ destroyed' = destroyed \cup
                       (IF id \in onclose THEN Removed(transports, id) ELSE {})
    /\ resp' = NoResp
    /\ UNCHANGED <<nextId, onclose, reqs, assigned, returned, deleted204>>
    /\ UNCHANGED <<connected, limits>>

----------------------------------------------------------------------------
(* POST /messages *)

PostMessagesMissing(body) ==
    /\ resp' = Reply([IdleReq EXCEPT !.op = "postMessages", !.body = body,
                                     !.pre = PreOf(Missing)], 400, 0)
    /\ UNCHANGED <<transports, nextId, onclose, open, reqs, assigned, returned,
                   destroyed, deleted204, closed>>
    /\ UNCHANGED <<connected, limits>>

PostMessagesNotFound(sid, body) ==
    /\ sid # Missing
    /\ MessagesNotFound(GetProp(transports, sid))
    /\ resp' = Reply([IdleReq EXCEPT !.op = "postMessages", !.sid = sid,
                                     !.body = body,
                                     !.tr = GetProp(transports, sid),
                                     !.pre = PreOf(sid)], 404, 0)
    /\ UNCHANGED <<transports, nextId, onclose, open, reqs, assigned, returned,
                   destroyed, deleted204, closed>>
    /\ UNCHANGED <<connected, limits>>

\* the handler suspends at await transport.handlePostMessage(...)
PostMessagesForward(sid, body) ==
    /\ sid # Missing
    /\ ~MessagesNotFound(GetProp(transports, sid))
    /\ HasFree
    /\ Start([IdleReq EXCEPT !.op = "postMessages", !.pc = "handle",
                           !.sid = sid, !.body = body,
                           !.tr = GetProp(transports, sid), !.pre = PreOf(sid)])
    /\ resp' = NoResp
    /\ UNCHANGED <<transports, nextId, onclose, open, assigned, returned,
                   destroyed, deleted204, closed>>
    /\ UNCHANGED <<connected, limits>>

\* handlePostMessage settles: the transport answers 202 itself; when it
\* rejects, the catch block answers 500 unless the response has started
PostMessagesHandled(r) ==
    /\ r.op = "postMessages" /\ r.pc = "handle"
    /\ LET call == r.body = "tools/call"
       IN \E outcome \in {"ok", "throw", "throwSent"} :
             \/ /\ outcome = "ok"
                /\ resp' = [Reply(r, 202, 0) EXCEPT !.fwd = TRUE, !.backend = call]
             \/ /\ outcome = "throw"
                /\ resp' = [Reply(r, 500, 0)
                              EXCEPT !.fwd = TRUE, !.backend = call, !.threw = TRUE]
             \/ /\ outcome = "throwSent"
                /\ resp' = [Reply(r, 202, 0)
                              EXCEPT !.fwd = TRUE, !.backend = call, !.threw = TRUE]
    /\ Finish(r)
    /\ UNCHANGED <<transports, nextId, onclose, open, assigned, returned,
                   destroyed, deleted204, closed>>
    /\ UNCHANGED <<connected, limits>>

----------------------------------------------------------------------------
(* GET /health *)

GetHealth ==
    /\ resp' = [NoResp EXCEPT !.op = "health", !.status = 200,
                              !.sessions = HealthSessions(transports)]
    /\ UNCHANGED <<transports, nextId, onclose, open, reqs, assigned, returned,
                   destroyed, deleted204, closed>>
    /\ UNCHANGED <<connected, limits>>

----------------------------------------------------------------------------
(* The steps of set_variables_bulk *)

\* the engine enters the handler with the validated arguments
BulkInvoke(variables) ==
    /\ bulk.pc = "idle"
    /\ LET n == Continue(Invoke(variables), backend)
       IN bulk' = n.run /\ backend' = n.backend
    /\ UNCHANGED <<msgs, stream, httpVars>>

\* the call in flight succeeds
BulkResolved ==
    /\ bulk.pc = "await"
    /\ LET n == Continue(Resolved(bulk), Settle(backend, bulk.call, TRUE))
       IN bulk' = n.run /\ backend' = n.backend
    /\ UNCHANGED <<msgs, stream, httpVars>>

\* the call in flight fails
BulkRejected ==
    /\ bulk.pc = "await"
    /\ LET n == Continue(Rejected(bulk), Settle(backend, bulk.call, FALSE))
       IN bulk' = n.run /\ backend' = n.backend
    /\ UNCHANGED <<msgs, stream, httpVars>>

NextBulk ==
    \/ \E variables \in Objects : BulkInvoke(variables)
    \/ BulkResolved
    \/ BulkRejected

----------------------------------------------------------------------------
(* Messages of an event-stream session that call set_variables_bulk *)

\* the names in the variables objects of the posted messages
MsgNames == {"A", "B"}

\* the variables objects of the posted messages: every order of some of the
\* names, one value
MsgObjects ==
    {o \in UNION {[1 .. n -> [name : MsgNames, value : {"x"}]] :
                     n \in 0 .. Cardinality(MsgNames)} :
        \A i, j \in 1 .. Len(o) : i # j => o[i].name # o[j].name}

\* transport.send(result): the result goes out on the event stream when the
\* connection is open and is lost when it is not
Send(out, k, isOpen) == IF isOpen THEN Append(out, k) ELSE out

\* message k after its handler has run on from b to its next await or its end
Ran(m, b, be) ==
    LET n == Continue(b, be)
    IN [m EXCEPT !.run = n.run,
                 !.late = @ \/ (n.run.pc = "await" /\ m.sid \in closed),
                 !.lost = n.run.pc = "done" /\ m.sid \notin open]

\* the stream after message k has become m
Sent(m, k) == IF m.run.pc = "done" THEN Send(stream, k, m.sid \in open) ELSE stream

\* POST /messages for a live SSE session carrying a set_variables_bulk call:
\* the handler passes the message to transport.handlePostMessage, which hands
\* it to the engine of the transport, and the engine enters the tool handler
MessagePosted(sid, variables) ==
    /\ Len(msgs) < MaxMsgs
    /\ PostMessagesForward(sid, "tools/call")
    /\ LET k == Len(msgs) + 1
           m == Ran([sid |-> sid, tr |-> GetProp(transports, sid), run |-> NoRun,
                     late |-> FALSE, lost |-> FALSE],
                    Invoke(variables), backend)
       IN /\ msgs' = Append(msgs, m)
          /\ backend' = Continue(Invoke(variables), backend).backend
          /\ stream' = Sent(m, k)
    /\ UNCHANGED bulk

\* the call in flight for message k succeeds
CommandResolved(k) ==
    /\ msgs[k].run.pc = "await"
    /\ LET be == Settle(backend, msgs[k].run.call, TRUE)
           m == Ran(msgs[k], Resolved(msgs[k].run), be)
       IN /\ msgs' = [msgs EXCEPT ![k] = m]
          /\ backend' = Continue(Resolved(msgs[k].run), be).backend
          /\ stream' = Sent(m, k)
    /\ resp' = NoResp
    /\ UNCHANGED <<bulk, mapVars>>

\* the call in flight for message k fails
CommandRejected(k) ==
    /\ msgs[k].run.pc = "await"
    /\ LET be == Settle(backend, msgs[k].run.call, FALSE)
           m == Ran(msgs[k], Rejected(msgs[k].run), be)
       IN /\ msgs' = [msgs EXCEPT ![k] = m]
          /\ backend' = Continue(Rejected(msgs[k].run), be).backend
          /\ stream' = Sent(m, k)
    /\ resp' = NoResp
    /\ UNCHANGED <<bulk, mapVars>>

NextMsg ==
    \/ GetSse /\ UNCHANGED toolVars
    \/ \E r \in BagToSet(reqs) : GetSseConnected(r) /\ UNCHANGED toolVars
    \/ \E id \in open : SseClose(id) /\ UNCHANGED toolVars
    \/ \E sid \in returned, variables \in MsgObjects : MessagePosted(sid, variables)
    \/ \E sid \in returned, body \in Bodies :
          PostMessagesNotFound(sid, body) /\ UNCHANGED toolVars
    \/ \E r \in BagToSet(reqs) : PostMessagesHandled(r) /\ UNCHANGED toolVars
    \/ \E k \in DOMAIN msgs : CommandResolved(k)
    \/ \E k \in DOMAIN msgs : CommandRejected(k)

----------------------------------------------------------------------------

Next ==
    \/ \E sid \in ClientIds : PostMcpInitialize(sid) /\ UNCHANGED toolVars
    \/ \E r \in BagToSet(reqs) : PostMcpConnected(r) /\ UNCHANGED toolVars
    \/ \E sid \in ClientIds, body \in Bodies : PostMcpForward(sid, body) /\ UNCHANGED toolVars
    \/ \E sid \in ClientIds, body \in Bodies : PostMcpReject(sid, body) /\ UNCHANGED toolVars
    \/ \E r \in BagToSet(reqs) : PostMcpHandled(r) /\ UNCHANGED toolVars
    \/ \E sid \in ClientIds : DeleteMcpBegin(sid) /\ UNCHANGED toolVars
    \/ \E sid \in ClientIds : DeleteMcpNotFound(sid) /\ UNCHANGED toolVars
    \/ \E r \in BagToSet(reqs) : DeleteMcpClosed(r) /\ UNCHANGED toolVars
    \/ GetSse /\ UNCHANGED toolVars
    \/ \E r \in BagToSet(reqs) : GetSseConnected(r) /\ UNCHANGED toolVars
    \/ \E id \in open : SseClose(id) /\ UNCHANGED toolVars
    \/ \E body \in Bodies : PostMessagesMissing(body) /\ UNCHANGED toolVars
    \/ \E sid \in ClientIds, body \in Bodies : PostMessagesNotFound(sid, body) /\ UNCHANGED toolVars
    \/ \E sid \in ClientIds, body \in Bodies : PostMessagesForward(sid, body) /\ UNCHANGED toolVars
    \/ \E r \in BagToSet(reqs) : PostMessagesHandled(r) /\ UNCHANGED toolVars
    \/ GetHealth /\ UNCHANGED toolVars

Spec == Init /\ [][Next]_vars

SpecRace == InitRace /\ [][Next]_vars

SpecBulk == Init /\ [][NextBulk]_vars

\* one event-stream session and the messages posted to it
InitMsg ==
    /\ Empty
    /\ limits = [sessions |-> 1, inflight |-> MaxInflight]

SpecMsg == InitMsg /\ [][NextMsg]_vars

----------------------------------------------------------------------------
(* Vocabulary of the properties *)

Range(f) == {f[x] : x \in DOMAIN f}

\* the sessions created and not destroyed
LiveSessions == Created \ destroyed

\* the step just taken answered a request that is not an initialize
Lookup(op) == resp.op = op /\ resp.body # "initialize"

\* the request just answered named a session that was in the map when its
\* handler started
NamedLive == resp.tr.kind \in {"streamable", "sse"}

\* the step just taken sent the id of a new session to the client
IdSent ==
    /\ resp.op \in {"postMcp", "getSse"}
    /\ resp.newId \in returned
    /\ resp.status = 200 /\ ~resp.threw

\* the answer of each endpoint to a session id it does not find
NotFound ==
    \/ resp.op = "postMcp" /\ resp.status = 400 /\ resp.code = InvalidSessionCode
    \/ resp.op = "postMessages" /\ resp.status = 404
    \/ resp.op = "deleteMcp" /\ resp.status = 404

\* the initialize handlers that have not finished
Initializing == {r.newId : r \in {q \in BagToSet(reqs) : q.op = "postMcp"}}

----------------------------------------------------------------------------
(* Properties *)

\* C1: when the id of a new session is sent to the client, a lookup of the
\* id right then finds the transport created for it; and once DELETE /mcp
\* has answered 204 for an id a client was sent, the id is not in the map
\* and every later request that looks it up gets the not-found answer.
C1_LookupAfterCreateAndDestroy ==
    /\ IdSent => GetProp(transports, resp.newId) = resp.tr
    /\ \A id \in returned \cap deleted204 : ~Truthy(GetProp(transports, id))
    /\ (resp.pre.deleted /\ resp.sid \in returned /\ resp.body # "initialize")
          => NotFound /\ ~resp.fwd

C1_Witness ==
    /\ resp.pre.deleted /\ resp.sid \in returned
    /\ Lookup("postMessages") /\ resp.status = 404

\* C2 (as claimed): a POST /mcp that is not an initialize and whose session
\* header is absent or names no entry of the map is answered 400 with code
\* -32000 and reaches no engine and no backend.
C2_UnknownSessionRejected ==
    (Lookup("postMcp") /\ ~NamedLive)
       => /\ resp.status = 400 /\ resp.code = InvalidSessionCode
          /\ ~resp.fwd /\ ~resp.backend

\* C3 (as claimed): no exception escapes DELETE /mcp; it answers 204 when
\* the id names a session, and 404 when an earlier DELETE /mcp has answered
\* 204 for the id.
C3_DeleteTwice ==
    resp.op = "deleteMcp"
       => /\ ~resp.escaped
          /\ NamedLive => resp.status = 204
          /\ (resp.pre.deleted /\ resp.sid \in Created) => resp.status = 404

\* C4: the count GET /health reports is the number of sessions created and
\* not destroyed, in every state.
C4_HealthCountsLive ==
    /\ HealthSessions(transports) = Cardinality(LiveSessions)
    /\ resp.op = "health" => resp.sessions = Cardinality(LiveSessions)

C4_Witness ==
    /\ resp.op = "health" /\ resp.sessions = 1
    /\ destroyed # {} /\ Len(assigned) > 1

\* C5: the ids assigned to sessions are pairwise distinct, whichever
\* transport created them and whatever was destroyed in between.
C5_IdsNeverReused ==
    \A i, j \in 1 .. Len(assigned) :
        i # j => assigned[i].id # assigned[j].id

C5_Witness ==
    /\ IdSent /\ resp.op = "getSse"
    /\ destroyed # {} /\ Len(assigned) > 1

\* C6 (as claimed): a POST /mcp that is not an initialize is forwarded only
\* to a streamable transport, and when its header names an SSE session it
\* is answered 400 with code -32000.
C6_SseSessionRejectedOnMcp ==
    Lookup("postMcp")
       => /\ resp.fwd => resp.tr.kind = "streamable"
          /\ resp.tr.kind = "sse"
                => resp.status = 400 /\ resp.code = InvalidSessionCode

\* C7: POST /messages forwards only to an SSE transport that was in the map;
\* it answers 400 when sessionId is absent and 404 when sessionId names
\* nothing or a streamable session, and then forwards nothing.
C7_MessagesRouting ==
    resp.op = "postMessages"
       => /\ resp.fwd => resp.tr.kind = "sse"
          /\ resp.sid = Missing => resp.status = 400 /\ ~resp.fwd
          /\ (resp.sid # Missing /\ resp.tr.kind # "sse")
                => resp.status = 404 /\ ~resp.fwd

C7_Witness ==
    /\ resp.op = "postMessages" /\ resp.tr.kind = "streamable"
    /\ resp.status = 404

\* C8 (as claimed): every initialize on POST /mcp is forwarded to the new
\* session's transport and sends the new id to the client, so that every
\* streamable session in the map whose initialize handler has finished has
\* had its id sent to a client.
C8_InitializeReturnsId ==
    /\ (resp.op = "postMcp" /\ resp.body = "initialize")
          => resp.fwd /\ resp.newId \in returned
    /\ \A id \in DOMAIN transports :
          (transports[id].kind = "streamable" /\ id \notin Initializing)
             => id \in returned

\* C9: every SSE session in the map has its onclose callback set; a session
\* whose event-stream connection has closed is not in the map, and a
\* POST /messages that names it after the close is answered 404.
C9_CloseRemovesSession ==
    /\ \A id \in DOMAIN transports : transports[id].kind = "sse" => id \in onclose
    /\ closed \cap DOMAIN transports = {}
    /\ (resp.op = "postMessages" /\ resp.pre.closed)
          => resp.status = 404 /\ ~resp.fwd

C9_Witness ==
    /\ resp.op = "postMessages" /\ resp.pre.closed /\ resp.status = 404
    /\ resp.sid \notin deleted204

\* C10 (as claimed): when closing the transport fails in DELETE /mcp, the
\* failure does not escape the handler and the entry is removed.
C10_CloseFailureSwallowed ==
    (resp.op = "deleteMcp" /\ resp.threw)
       => ~resp.escaped /\ resp.sid \notin DOMAIN transports

\* C11 (as claimed): a failure inside the transport or the engine during
\* POST /mcp, POST /messages or GET /sse never escapes the handler; when the
\* response has not started the handler answers 500 with the error envelope
\* of code -32603, and when it has started nothing further is written.
C11_FailureAnswered ==
    (resp.threw /\ resp.op \in {"postMcp", "postMessages", "getSse"})
       => /\ ~resp.escaped
          /\ resp.status \in {200, 202, 500}
          /\ resp.status = 500 => resp.code = InternalErrorCode

\* C12 (as claimed): when connecting the engine or handling the initialize
\* payload fails during POST /mcp initialize or GET /sse, the map holds no
\* entry for the new id once the handler has finished.
C12_FailedCreateDestroyed ==
    (/\ resp.threw /\ resp.newId # Missing
     /\ \A r \in BagToSet(reqs) : r.newId # resp.newId)
       => resp.newId \notin DOMAIN transports

\* C13: set_variables_bulk calls the backend once per key of its input, in
\* the key order of the input and with nothing but variableUpsert; a call
\* that fails is the last call it makes; and every variable whose call
\* succeeded is held by the backend with the value given, whatever happens
\* to the later keys.
C13_BulkOrderAndStop ==
    LET calls == backend.calls
    IN /\ Len(calls) <= Len(bulk.entries)
       /\ \A j \in 1 .. Len(calls) :
             /\ calls[j].query = "variableUpsert"
             /\ <<calls[j].name, calls[j].value>> = bulk.entries[j]
             /\ j < Len(calls) => calls[j].outcome = "resolved"
             /\ calls[j].outcome = "resolved"
                   => /\ calls[j].name \in DOMAIN backend.store
                      /\ backend.store[calls[j].name] = calls[j].value
       /\ (bulk.pc = "done" /\ bulk.reply.kind = "result")
             => Len(calls) = Len(bulk.entries)

C13_Witness ==
    /\ bulk.pc = "done" /\ Len(bulk.entries) = 3
    /\ Len(backend.calls) = 2
    /\ backend.calls[1].outcome = "resolved"
    /\ backend.calls[2].outcome = "rejected"
    /\ DOMAIN backend.store = {bulk.entries[1][1]}

\* C14 (as claimed): when set_variables_bulk has ended after calls that
\* succeeded and one that failed, what it hands back reports every key it
\* called the backend for: success for those whose call succeeded and failure
\* for the one whose call failed.
C14_ResultReportsEachKey ==
    (bulk.pc = "done" /\ bulk.reply.kind = "error" /\ Len(backend.calls) >= 2)
       => \A j \in 1 .. Len(backend.calls) :
             [name |-> backend.calls[j].name,
              success |-> backend.calls[j].outcome = "resolved"]
                \in Range(bulk.reply.results)

\* the ids a DELETE /mcp has passed its test for and is closing the transport of
Closing == {r.sid : r \in {q \in BagToSet(reqs) : q.op = "deleteMcp"}}

\* C15 (as claimed): once a DELETE /mcp for a live session has passed its test
\* and begun closing the transport, no request handled meanwhile for the same
\* id sees the session as live: no step forwards a request for that id to the
\* transport and no step lets a second DELETE /mcp for it pass the test.
C15_DestroyAtomic ==
    [][\A q \in BagToSet(reqs') :
          (q.sid \in Closing /\ q.tr.kind \in {"streamable", "sse"})
             => CopiesIn(q, reqs') <= CopiesIn(q, reqs)]_vars

\* the engine instances connected to transport t
EnginesOf(t) == {c.engine : c \in {d \in connected : d.tr = t}}

C19_OnlyDeleteRemoves ==
    [][\/ transports' = transports
       \/ \A id \in DOMAIN transports :
             transports[id].kind = "streamable"
                => \/ id \in DOMAIN transports' /\ transports'[id] = transports[id]
                   \/ resp'.op = "deleteMcp" /\ resp'.sid = id /\ resp'.status = 204]_vars

C19_Witness ==
    /\ resp.op = "postMcp" /\ resp.threw /\ resp.body = "tools/call"
    /\ resp.sid \in DOMAIN transports
    /\ transports[resp.sid].kind = "streamable"
    /\ closed # {} /\ destroyed # {}

\* C17 (as claimed): the results of the messages posted to one event-stream
\* session go out on its stream in the order in which the messages arrived.
C17_ResultsInArrivalOrder ==
    \A i, j \in 1 .. Len(stream) : i < j => stream[i] < stream[j]

\* C18 (as claimed): after the client of an event-stream session has
\* disconnected the session is not in the map, the result of a command that
\* ends afterwards goes to no client, and no backend call is issued for the
\* session any more.
C18_NoCallAfterDisconnect ==
    /\ closed \cap DOMAIN transports = {}
    /\ \A k \in DOMAIN msgs :
          /\ msgs[k].lost => k \notin Range(stream)
          /\ ~msgs[k].late

====
